---- MODULE Spec2Model ----
(***************************************************************************)
(* State machine of the WhatsAppSessionGenerator component                 *)
(* (src/app/page.tsx): the session list, the phone-number input, the busy  *)
(* flag, the toasts it emits and the timers it schedules with setTimeout.  *)
(*                                                                         *)
(* Time is the value of Date.now() in milliseconds.  It advances only to   *)
(* the due time of the next pending timer, so every handler runs at an     *)
(* instant at which some timer is due (or at time 0).                      *)
(*                                                                         *)
(* Strings of the program are TLA+ strings.  An optional field that is     *)
(* absent holds the value undefined.                                       *)
(***************************************************************************)
EXTENDS Integers, Sequences, FiniteSets, TLC

\* ---------------------------------------------------------------- bounds
\* Creation requests (accepted ones) in one run.
MaxCreates == 2
\* The same, in the specification with fairness.
MaxLiveCreates == 1

\* ------------------------------------------------------ program constants
QRDelay == 1500
PairDelay == 2000
QRTimeout == 30000
PairTimeout == 60000
PairCodeLen == 8

\* ----------------------------------------------------------------- inputs
\* Values the user types into the phone-number input.
Phones == {"", "+15551234567", "+1234567890"}
\* Outcomes of Math.random().toString(36).substring(2, 15).
RandomStrings == {"k3j9x0q2m1a", "0zz81hd7wpc"}
\* Outcomes of the two such draws one scannable payload takes.
QRDraws == {<<"5b1yq8c0e7t", "k3j9x0q2m1a">>}
\* Outcomes of the eight draws Math.floor(Math.random() * chars.length).
PairDraws == {<<0, 1, 25, 3, 26, 27, 9, 35>>}
\* Outcomes of one draw Math.floor(Math.random() * chars.length): A, Z, 0, 9.
DrawVals == {0, 25, 26, 35}
\* An id no session was ever given.
NoSuchId == "wa_session_0_none"

undefined == "undefined"

VARIABLES
  sessions,      \* useState<SessionData[]>: the list, first element first
  phoneNumber,   \* useState(""): the phone-number input
  isGenerating,  \* useState(false): the busy flag
  toast,         \* the toast most recently emitted
  timers,        \* pending setTimeout callbacks, in the order they were scheduled
  now,           \* Date.now()
  lastCall,      \* history: the handler or callback that ran last and its argument
  created,       \* history: the ids of the sessions created so far, oldest first
  pairRequests,  \* history: the phone number of each accepted pairing request still suspended
  result,        \* generatePairCode's local result while its loop runs, as characters
  pairCodeOut    \* the characters of the value generatePairCode returned (none: << >>)

\* The component's state, and the state of a call of generatePairCode.
component == <<sessions, phoneNumber, isGenerating, toast, timers, now, lastCall, created, pairRequests>>
generator == <<result, pairCodeOut>>
vars == <<component, generator>>

\* ------------------------------------------------------------- generators
chars == <<"A", "B", "C", "D", "E", "F", "G", "H", "I", "J", "K", "L", "M",
           "N", "O", "P", "Q", "R", "S", "T", "U", "V", "W", "X", "Y", "Z",
           "0", "1", "2", "3", "4", "5", "6", "7", "8", "9">>

\* An id built from the random suffix alone.
generateSessionIdNoStamp(timestamp, random) == "wa_session_" \o random

generateSessionId(timestamp, random) ==
  "wa_session_" \o ToString(timestamp) \o "_" \o random

\* btoa is injective; the model keeps the payload under an encoding marker.
btoa(s) == "base64:" \o s

generateQRCode(r1, r2, timestamp) ==
  btoa("2@" \o r1 \o "," \o r2 \o "," \o ToString(timestamp))

\* result after the loop: chars.charAt(draw) for each of the draws, in order.
pairCodeChars(draws) == [i \in 1..PairCodeLen |-> chars[draws[i] + 1]]

\* String.match(/.{1,8}/g)
match4Wide(s) == IF Len(s) = 0 THEN << >> ELSE <<s>>

\* String.match(/.{1,4}/g): the maximal chunks of at most 4 characters, in order.
RECURSIVE match4(_)
match4(s) ==
  IF Len(s) = 0 THEN << >>
  ELSE IF Len(s) <= 4 THEN <<s>>
  ELSE <<SubSeq(s, 1, 4)>> \o match4(SubSeq(s, 5, Len(s)))

\* Array.join("-") of chunks of characters, as a sequence of characters.
RECURSIVE joinHyphen(_)
joinHyphen(chunks) ==
  IF Len(chunks) = 0 THEN << >>
  ELSE IF Len(chunks) = 1 THEN chunks[1]
  ELSE chunks[1] \o <<"-">> \o joinHyphen(Tail(chunks))

\* result.match(/.{1,4}/g)?.join("-") || result
formatPairCode(res) ==
  LET groups == match4(res)
  IN  IF Len(groups) = 0 \/ Len(joinHyphen(groups)) = 0 THEN res ELSE joinHyphen(groups)

\* The characters of the value generatePairCode returns.
generatePairCodeChars(draws) == formatPairCode(pairCodeChars(draws))

RECURSIVE str(_)
str(cs) == IF Len(cs) = 0 THEN "" ELSE Head(cs) \o str(Tail(cs))

generatePairCode(draws) == str(generatePairCodeChars(draws))

\* ---------------------------------------------------------------- records
Toast(title, variant) == [title |-> title, variant |-> variant]
\* input: the value of the phone-number input when a suspended creation resumed
Call(op, arg) == [op |-> op, arg |-> arg, input |-> ""]
Resumed(op, arg) == [op |-> op, arg |-> arg, input |-> phoneNumber]
\* A timer set one second late.
TimerLate(kind, due, id, phone) ==
  [kind |-> kind, due |-> due + 1000, id |-> id, phone |-> phone]

Timer(kind, due, id, phone) == [kind |-> kind, due |-> due, id |-> id, phone |-> phone]

newQRSession(id, qr, at) ==
  [sessionId |-> id, status |-> "connecting", qrCode |-> qr,
   pairCode |-> undefined, phoneNumber |-> undefined, createdAt |-> at]

\* A pairing record that also fills qrCode.
newPairSessionBoth(id, code, phone, at) ==
  [sessionId |-> id, status |-> "connecting", qrCode |-> code,
   pairCode |-> code, phoneNumber |-> phone, createdAt |-> at]

newPairSession(id, code, phone, at) ==
  [sessionId |-> id, status |-> "connecting", qrCode |-> undefined,
   pairCode |-> code, phoneNumber |-> phone, createdAt |-> at]

\* ---------------------------------------------------------- list updates
Ids(list) == {list[i].sessionId : i \in DOMAIN list}

\* () => [newSession]
prependOverwrites(newSession, prev) == <<newSession>>

\* (prev) => [...prev, newSession]
prependWrong(newSession, prev) == Append(prev, newSession)

\* (prev) => [newSession, ...prev]
prepend(newSession, prev) == <<newSession>> \o prev

withStatus(prev, sessionId, status) ==
  [i \in DOMAIN prev |->
     IF prev[i].sessionId = sessionId THEN [prev[i] EXCEPT !.status = status]
     ELSE prev[i]]

\* A timeout callback that marks every session.
expireAll(prev, sessionId) ==
  [i \in DOMAIN prev |-> [prev[i] EXCEPT !.status = "disconnected"]]

\* A timeout callback that drops the session from the list.
expireRemoves(prev, sessionId) ==
  LET keep(session) == session.sessionId # sessionId
  IN  SelectSeq(prev, keep)

\* A timeout callback that leaves the list as it is.
expireNever(prev, sessionId) == prev

\* the timeout callback's update: prev.map(... status: "disconnected" ...)
expire(prev, sessionId) == withStatus(prev, sessionId, "disconnected")

\* An update that flips a connected session back to connecting.
connectToggle(prev, sessionId) ==
  [i \in DOMAIN prev |->
     IF prev[i].sessionId = sessionId
     THEN [prev[i] EXCEPT !.status =
             IF prev[i].status = "connected" THEN "connecting" ELSE "connected"]
     ELSE prev[i]]

\* simulateConnection's update: prev.map(... status: "connected" ...)
connect(prev, sessionId) == withStatus(prev, sessionId, "connected")

\* deleteSession's update: prev.filter(session => session.sessionId !== sessionId)
remove(prev, sessionId) ==
  LET keep(session) == session.sessionId # sessionId
  IN  SelectSeq(prev, keep)

\* A validation that accepts every input.
phoneMissingNever(p) == FALSE

\* !phoneNumber
phoneMissing(p) == p = ""

\* The input as it is when the creation resumes, not as the closure holds it.
pairPhoneLive(t) == phoneNumber

\* phoneNumber as the closure of the suspended createPairSession holds it
pairPhone(t) == t.phone

\* ------------------------------------------------------------------ timers
Dues == {timers[i].due : i \in DOMAIN timers}
MinDue == CHOOSE d \in Dues : \A e \in Dues : d <= e
\* The timer that fires next: the earliest due, the first scheduled among equals.
NextTimer == CHOOSE i \in DOMAIN timers :
               /\ timers[i].due = MinDue
               /\ \A j \in DOMAIN timers : timers[j].due = MinDue => i <= j
without(seq, i) == SubSeq(seq, 1, i - 1) \o SubSeq(seq, i + 1, Len(seq))
Suspended == {i \in DOMAIN timers : timers[i].kind \in {"qrResume", "pairResume"}}
CreatesStarted == Len(created) + Cardinality(Suspended)

\* ------------------------------------------------------------------- Init
Init ==
  /\ sessions = << >>
  /\ phoneNumber = ""
  /\ isGenerating = FALSE
  /\ toast = Toast("", "")
  /\ timers = << >>
  /\ now = 0
  /\ lastCall = Call("mount", "")
  /\ created = << >>
  /\ pairRequests = << >>
  /\ result = << >>
  /\ pairCodeOut = << >>

\* --------------------------------------------------------------- handlers
\* onChange of the phone input
setPhoneNumber(p) ==
  /\ phoneNumber' = p
  /\ lastCall' = Call("setPhoneNumber", p)
  /\ UNCHANGED <<sessions, isGenerating, toast, timers, now, created, pairRequests, generator>>

\* createQRSession without setIsGenerating(true)
createQRSessionNoFlag ==
  /\ timers' = Append(timers, Timer("qrResume", now + QRDelay, "", ""))
  /\ lastCall' = Call("createQRSession", "")
  /\ UNCHANGED <<sessions, phoneNumber, isGenerating, toast, now, created, pairRequests, generator>>

\* createQRSession up to its await
createQRSession ==
  /\ isGenerating' = TRUE
  /\ timers' = Append(timers, Timer("qrResume", now + QRDelay, "", ""))
  /\ lastCall' = Call("createQRSession", "")
  /\ UNCHANGED <<sessions, phoneNumber, toast, now, created, pairRequests, generator>>

\* createQRSession after its await, without setIsGenerating(false)
createQRSessionResumeBusy(i) ==
  \E random \in RandomStrings, qr \in QRDraws :
    LET newSession == newQRSession(generateSessionId(now, random),
                                   generateQRCode(qr[1], qr[2], now), now)
    IN  /\ sessions' = prepend(newSession, sessions)
        /\ toast' = Toast("QR Session Created", "")
        /\ timers' = Append(without(timers, i),
                            Timer("timeout", now + QRTimeout, newSession.sessionId, ""))
        /\ created' = Append(created, newSession.sessionId)
        /\ lastCall' = Resumed("createQRSession.resume", newSession.sessionId)
        /\ UNCHANGED <<phoneNumber, isGenerating, now, pairRequests, generator>>

\* createQRSession after its await; timers[i] is the timer that resolved the promise
createQRSessionResume(i) ==
  \E random \in RandomStrings, qr \in QRDraws :
    LET newSession == newQRSession(generateSessionId(now, random),
                                   generateQRCode(qr[1], qr[2], now), now)
    IN  /\ sessions' = prepend(newSession, sessions)
        /\ isGenerating' = FALSE
        /\ toast' = Toast("QR Session Created", "")
        /\ timers' = Append(without(timers, i),
                            Timer("timeout", now + QRTimeout, newSession.sessionId, ""))
        /\ created' = Append(created, newSession.sessionId)
        /\ lastCall' = Resumed("createQRSession.resume", newSession.sessionId)
        /\ UNCHANGED <<phoneNumber, now, pairRequests, generator>>

\* createPairSession up to its return or its await
createPairSession ==
  IF phoneMissing(phoneNumber)
  THEN /\ toast' = Toast("Phone Number Required", "destructive")
       /\ lastCall' = Call("createPairSession", phoneNumber)
       /\ UNCHANGED <<sessions, phoneNumber, isGenerating, timers, now, created, pairRequests, generator>>
  ELSE /\ isGenerating' = TRUE
       /\ timers' = Append(timers, Timer("pairResume", now + PairDelay, "", phoneNumber))
       /\ pairRequests' = Append(pairRequests, phoneNumber)
       /\ lastCall' = Call("createPairSession", phoneNumber)
       /\ UNCHANGED <<sessions, phoneNumber, toast, now, created, generator>>

\* createPairSession after its await
createPairSessionResume(i) ==
  \E random \in RandomStrings, draws \in PairDraws :
    LET newSession == newPairSession(generateSessionId(now, random),
                                     generatePairCode(draws), pairPhone(timers[i]), now)
    IN  /\ sessions' = prepend(newSession, sessions)
        /\ isGenerating' = FALSE
        /\ phoneNumber' = ""
        /\ toast' = Toast("Pair Code Generated", "")
        /\ timers' = Append(without(timers, i),
                            Timer("timeout", now + PairTimeout, newSession.sessionId, ""))
        /\ created' = Append(created, newSession.sessionId)
        /\ pairRequests' = Tail(pairRequests)
        /\ lastCall' = Resumed("createPairSession.resume", newSession.sessionId)
        /\ UNCHANGED <<now, generator>>

\* the callback of the timeout timer
timeoutCallback(i) ==
  /\ sessions' = expire(sessions, timers[i].id)
  /\ timers' = without(timers, i)
  /\ lastCall' = Call("timeout", timers[i].id)
  /\ UNCHANGED <<phoneNumber, isGenerating, toast, now, created, pairRequests, generator>>

simulateConnection(sessionId) ==
  /\ sessions' = connect(sessions, sessionId)
  /\ toast' = Toast("Connected!", "")
  /\ lastCall' = Call("simulateConnection", sessionId)
  /\ UNCHANGED <<phoneNumber, isGenerating, timers, now, created, pairRequests, generator>>

deleteSession(sessionId) ==
  /\ sessions' = remove(sessions, sessionId)
  /\ toast' = Toast("Session Deleted", "")
  /\ lastCall' = Call("deleteSession", sessionId)
  /\ UNCHANGED <<phoneNumber, isGenerating, timers, now, created, pairRequests, generator>>

\* ------------------------------------------------------------ environment
\* A due timer fires: the event loop runs its callback.
TimerFire ==
  /\ timers # << >>
  /\ MinDue <= now
  /\ LET i == NextTimer
     IN  \/ timers[i].kind = "qrResume" /\ createQRSessionResume(i)
         \/ timers[i].kind = "pairResume" /\ createPairSessionResume(i)
         \/ timers[i].kind = "timeout" /\ timeoutCallback(i)

\* Time passes until the next timer is due.
Advance ==
  /\ timers # << >>
  /\ MinDue > now
  /\ now' = MinDue
  /\ lastCall' = Call("wait", "")
  /\ UNCHANGED <<sessions, phoneNumber, isGenerating, toast, timers, created, pairRequests, generator>>

\* ------------------------------------------------- the rendered component
TypePhone == \E p \in Phones : p # phoneNumber /\ setPhoneNumber(p)

\* <Button onClick={createQRSession} disabled={isGenerating}>
GenerateQR(max) ==
  /\ ~isGenerating
  /\ CreatesStarted < max
  /\ createQRSession

ClickGenerateQR == GenerateQR(MaxCreates)

\* <Button onClick={createPairSession} disabled={isGenerating}>
GeneratePair(max) ==
  /\ ~isGenerating
  /\ CreatesStarted < max
  /\ createPairSession

ClickGeneratePair == GeneratePair(MaxCreates)

\* {session.status === "connecting" && <Button onClick={() => simulateConnection(...)}>}
ClickSimulateConnect ==
  \E i \in DOMAIN sessions :
    /\ sessions[i].status = "connecting"
    /\ simulateConnection(sessions[i].sessionId)

\* <Button onClick={() => deleteSession(session.sessionId)}>
ClickDelete ==
  \E i \in DOMAIN sessions : deleteSession(sessions[i].sessionId)

Next ==
  \/ TypePhone
  \/ ClickGenerateQR
  \/ ClickGeneratePair
  \/ ClickSimulateConnect
  \/ ClickDelete
  \/ TimerFire
  \/ Advance

Spec == Init /\ [][Next]_vars

\* The same component under fairness: the event loop runs every due timer,
\* and time does not stop.
LiveGenerateQR == GenerateQR(MaxLiveCreates)

LiveGeneratePair == GeneratePair(MaxLiveCreates)

NextLive ==
  \/ TypePhone
  \/ LiveGenerateQR
  \/ LiveGeneratePair
  \/ ClickSimulateConnect
  \/ ClickDelete
  \/ TimerFire
  \/ Advance

FairSpec == Init /\ [][NextLive]_vars /\ WF_vars(TimerFire) /\ WF_vars(Advance)

\* -------------------------------------------- the handlers as operations
\* The handlers called directly, by callers that do not look at what is
\* rendered: any id, and a creation while another one is suspended.
ArgIds ==
  Ids(sessions) \cup {timers[i].id : i \in {j \in DOMAIN timers : timers[j].kind = "timeout"}}
                \cup {NoSuchId}

InvokeCreateQR == CreatesStarted < MaxCreates /\ createQRSession

InvokeCreatePair == CreatesStarted < MaxCreates /\ createPairSession

InvokeConfirm == \E id \in ArgIds : simulateConnection(id)

InvokeRemove == \E id \in ArgIds : deleteSession(id)

NextApi ==
  \/ TypePhone
  \/ InvokeCreateQR
  \/ InvokeCreatePair
  \/ InvokeConfirm
  \/ InvokeRemove
  \/ TimerFire
  \/ Advance

SpecApi == Init /\ [][NextApi]_vars

\* The same direct calls with the input holding either nothing or one number:
\* the two cases createPairSession tells apart.
CallPhones == {"", "+15551234567"}

InvokeSetPhone == \E p \in CallPhones : p # phoneNumber /\ setPhoneNumber(p)

NextCalls ==
  \/ InvokeSetPhone
  \/ InvokeCreateQR
  \/ InvokeCreatePair
  \/ InvokeConfirm
  \/ InvokeRemove
  \/ TimerFire
  \/ Advance

SpecCalls == Init /\ [][NextCalls]_vars

\* ------------------------------------------- one call of generatePairCode
\* for (let i = 0; i < 8; i++) result += chars.charAt(Math.floor(Math.random() * chars.length))
GenLoop ==
  /\ pairCodeOut = << >>
  /\ Len(result) < PairCodeLen
  /\ \E d \in DrawVals : result' = Append(result, chars[d + 1])
  /\ UNCHANGED <<component, pairCodeOut>>

\* return result.match(/.{1,4}/g)?.join("-") || result
GenReturn ==
  /\ pairCodeOut = << >>
  /\ Len(result) = PairCodeLen
  /\ pairCodeOut' = formatPairCode(result)
  /\ UNCHANGED <<component, result>>

GenNext == GenLoop \/ GenReturn

GenSpec == Init /\ [][GenNext]_vars

\* ================================================================ claims
InList(id) == id \in Ids(sessions)
Has(id, status) == \E i \in DOMAIN sessions :
                     sessions[i].sessionId = id /\ sessions[i].status = status
IdSeq(list) == [i \in DOMAIN list |-> list[i].sessionId]
\* The position of id in the creation history (0: never created).
CreatedAs(id) == IF \E k \in DOMAIN created : created[k] = id
                 THEN CHOOSE k \in DOMAIN created : created[k] = id
                 ELSE 0

\* C1: when the timeout timer of a session fires, a session that is Connected
\* at that moment is still Connected afterwards (the timer moves a session to
\* Disconnected only if it is still Connecting).
C1_TimerSparesConnected ==
  [][lastCall'.op = "timeout" =>
       \A i \in DOMAIN sessions :
         (sessions[i].sessionId = lastCall'.arg /\ sessions[i].status = "connected")
           => (i \in DOMAIN sessions' /\ sessions'[i].status = "connected")]_vars

\* C2: in every step, the state of a session that stays in the list either
\* stays as it is or moves Connecting -> Connected or Connecting -> Disconnected.
C2_Forward(a, b) ==
  a = b \/ (a = "connecting" /\ b \in {"connected", "disconnected"})

\* C2: no step moves a listed session Connected -> Disconnected, Disconnected
\* -> Connected, or back to Connecting.
C2_StateMonotonic ==
  [][\A i \in DOMAIN sessions : \A j \in DOMAIN sessions' :
       sessions[i].sessionId = sessions'[j].sessionId
         => C2_Forward(sessions[i].status, sessions'[j].status)]_vars

\* C3: every created session eventually leaves Connecting; it leaves it only by
\* a confirm or a delete of its id or by its timer, which makes it Disconnected
\* in the list; and a Disconnected session stays listed and Disconnected until
\* it is deleted.
C3_LeavesConnecting ==
  \A k \in 1..MaxLiveCreates :
    (Len(created) >= k /\ Has(created[k], "connecting"))
      ~> (Len(created) >= k /\ ~Has(created[k], "connecting"))

C3_ByTimerDisconnected ==
  [][\A i \in DOMAIN sessions :
       (sessions[i].status = "connecting"
          /\ lastCall' # Call("simulateConnection", sessions[i].sessionId)
          /\ lastCall' # Call("deleteSession", sessions[i].sessionId))
       => \/ \E j \in DOMAIN sessions' : sessions'[j] = sessions[i]
          \/ /\ lastCall' = Call("timeout", sessions[i].sessionId)
             /\ i \in DOMAIN sessions'
             /\ sessions'[i] = [sessions[i] EXCEPT !.status = "disconnected"]]_vars

C3_StaysDisconnected ==
  [][\A i \in DOMAIN sessions :
       (sessions[i].status = "disconnected"
          /\ lastCall' # Call("deleteSession", sessions[i].sessionId))
       => \E j \in DOMAIN sessions' : sessions'[j] = sessions[i]]_vars

\* C3: a created session that is neither confirmed nor deleted eventually
\* becomes Disconnected and stays in the list in that state.
C3_TimeoutFiresIfUnconfirmed ==
  C3_LeavesConnecting /\ C3_ByTimerDisconnected /\ C3_StaysDisconnected

\* A session that was created, never confirmed or deleted (no toast since its
\* creation), and whose timer has just made it Disconnected.
C3_Witness ==
  /\ Len(sessions) = 1
  /\ created = <<sessions[1].sessionId>>
  /\ sessions[1].status = "disconnected"
  /\ toast.title = "QR Session Created"
  /\ lastCall = Call("timeout", sessions[1].sessionId)

\* C4: the timer of a deleted session changes nothing in the list when it
\* fires, and no pending timer refers to a session that is not in the list.
C4_NoDanglingTimer ==
  \A i \in DOMAIN timers : timers[i].kind = "timeout" => InList(timers[i].id)

\* C4: deleting a session cancels its timer: the later firing changes nothing
\* and no pending timer refers to the deleted session.
C4_DeleteCancelsTimer ==
  /\ [][(lastCall'.op = "timeout" /\ lastCall'.arg \notin Ids(sessions))
          => sessions' = sessions]_vars
  /\ []C4_NoDanglingTimer

\* C5: simulateConnection of an id that is not in the list leaves the list
\* unchanged and does not report success.
C5_ConfirmAbsentNotFound ==
  [][(lastCall'.op = "simulateConnection" /\ lastCall'.arg \notin Ids(sessions))
       => (sessions' = sessions /\ toast'.title # "Connected!")]_vars

\* C6: deleteSession of an id that is not in the list leaves the list
\* unchanged and does not report a deletion.
C6_RemoveAbsentNotFound ==
  [][(lastCall'.op = "deleteSession" /\ lastCall'.arg \notin Ids(sessions))
       => (sessions' = sessions /\ toast'.title # "Session Deleted")]_vars

\* C7: createPairSession with an empty phone number emits the destructive
\* "Phone Number Required" toast and nothing else: the list, the timers and the
\* input are unchanged and the busy flag was and stays false.
C7_MissingPhoneRejected ==
  [][(lastCall'.op = "createPairSession" /\ phoneNumber = "")
       => /\ toast' = Toast("Phone Number Required", "destructive")
          /\ sessions' = sessions
          /\ timers' = timers
          /\ pairRequests' = pairRequests
          /\ phoneNumber' = phoneNumber
          /\ ~isGenerating /\ ~isGenerating']_vars

\* An empty-number request has just been rejected while sessions exist.
C7_Witness ==
  /\ lastCall = Call("createPairSession", "")
  /\ toast = Toast("Phone Number Required", "destructive")
  /\ Len(sessions) > 0
  /\ timers # << >>

\* C8: a pairing request is accepted exactly when the number is not empty; an
\* accepted request has its resumption scheduled; when it resumes it puts exactly one new session at the front of the list, in state
\* connecting, of the pairing variant, whose phoneNumber is the number the
\* request was made with, whatever the input holds by then.
C8_PairingCarriesRequestedPhone ==
  /\ [](Len(pairRequests) =
          Cardinality({i \in DOMAIN timers : timers[i].kind = "pairResume"}))
  /\ [][lastCall'.op = "createPairSession"
          => pairRequests' = IF phoneNumber = "" THEN pairRequests
                             ELSE Append(pairRequests, phoneNumber)]_vars
  /\ [][lastCall'.op = "createPairSession.resume"
          => /\ pairRequests # << >>
             /\ pairRequests' = Tail(pairRequests)
             /\ Len(sessions') = Len(sessions) + 1
             /\ Tail(sessions') = sessions
             /\ Head(sessions').status = "connecting"
             /\ Head(sessions').pairCode # undefined
             /\ Head(sessions').qrCode = undefined
             /\ Head(sessions').phoneNumber = Head(pairRequests)
             /\ Head(sessions').phoneNumber # ""]_vars

\* A pairing creation has just resumed after the input was changed to another
\* number while it was suspended.
C8_Witness ==
  /\ lastCall.op = "createPairSession.resume"
  /\ lastCall.input # ""
  /\ sessions # << >>
  /\ Head(sessions).sessionId = lastCall.arg
  /\ Head(sessions).phoneNumber # lastCall.input

\* C9: the list is newest first: of two sessions in it, the one created later
\* (later in the creation history, later createdAt) comes first; and a confirm,
\* a delete or a timeout leaves the remaining sessions in the order they had.
C9_NewestFirst ==
  \A i \in DOMAIN sessions : \A j \in DOMAIN sessions :
    i < j => /\ CreatedAs(sessions[i].sessionId) > CreatedAs(sessions[j].sessionId)
             /\ sessions[i].createdAt > sessions[j].createdAt

C9_OrderKept ==
  [][lastCall'.op \in {"simulateConnection", "deleteSession", "timeout"}
       => LET stays(id) == id \in Ids(sessions')
          IN  IdSeq(sessions') = SelectSeq(IdSeq(sessions), stays)]_vars

\* C9: the list is always newest first, and confirm, delete and timeout never
\* reorder the sessions that remain.
C9_ListingOrder == []C9_NewestFirst /\ C9_OrderKept

\* Two sessions are listed, the older one timed out by the last step.
C9_Witness ==
  /\ Len(sessions) = 2
  /\ lastCall = Call("timeout", sessions[2].sessionId)
  /\ sessions[2].status = "disconnected"

\* C10: every session has exactly one artifact, a qrCode or a pairCode with a
\* phoneNumber, and no step changes the sessionId, the artifact or createdAt of
\* a session that stays in the list.
C10_OneArtifact(s) ==
  \/ s.qrCode # undefined /\ s.pairCode = undefined /\ s.phoneNumber = undefined
  \/ /\ s.qrCode = undefined
     /\ s.pairCode \notin {undefined, ""}
     /\ s.phoneNumber \notin {undefined, ""}

C10_ArtifactKept ==
  [][\A i \in DOMAIN sessions : \A j \in DOMAIN sessions' :
       sessions[i].sessionId = sessions'[j].sessionId
         => /\ sessions'[j].qrCode = sessions[i].qrCode
            /\ sessions'[j].pairCode = sessions[i].pairCode
            /\ sessions'[j].phoneNumber = sessions[i].phoneNumber
            /\ sessions'[j].createdAt = sessions[i].createdAt]_vars

\* C10: exactly one artifact per listed session, and the artifact, the id and
\* createdAt of a listed session never change.
C10_ExactlyOneArtifact ==
  /\ [](\A i \in DOMAIN sessions : C10_OneArtifact(sessions[i]))
  /\ C10_ArtifactKept

\* A scan session and a pairing session are listed, one of them confirmed and
\* the other timed out by the last step.
C10_Witness ==
  \E i \in DOMAIN sessions : \E j \in DOMAIN sessions :
    /\ sessions[i].qrCode # undefined
    /\ sessions[j].pairCode # undefined
    /\ \E a \in {i, j} : sessions[a].status = "connected"
    /\ \E b \in {i, j} : lastCall = Call("timeout", sessions[b].sessionId)
                         /\ sessions[b].status = "disconnected"

\* C11: no two sessions in the list have the same sessionId, and no id was
\* given twice in the run, sessions since deleted included.
C11_IdsUnique ==
  /\ \A i \in DOMAIN sessions : \A j \in DOMAIN sessions :
       sessions[i].sessionId = sessions[j].sessionId => i = j
  /\ \A k \in DOMAIN created : \A l \in DOMAIN created :
       created[k] = created[l] => k = l
  /\ Ids(sessions) \subseteq {created[k] : k \in DOMAIN created}

\* A second session was created after the first one was deleted.
C11_Witness ==
  /\ Len(created) = 2
  /\ Len(sessions) = 1
  /\ sessions[1].sessionId = created[2]
  /\ lastCall.op \in {"createQRSession.resume", "createPairSession.resume"}

\* C12: a timeout step changes at most the status of the sessions with the
\* timer's id; every other session keeps its record and its position.
C12_TimerIsolation ==
  [][lastCall'.op = "timeout" =>
       /\ Len(sessions') = Len(sessions)
       /\ \A i \in DOMAIN sessions :
            /\ sessions[i].sessionId # lastCall'.arg => sessions'[i] = sessions[i]
            /\ sessions[i].sessionId = lastCall'.arg
                 => sessions'[i] = [sessions[i] EXCEPT !.status = sessions'[i].status]]_vars

\* A timer has just expired one of two listed sessions and the other one is
\* still connecting.
C12_Witness ==
  /\ Len(sessions) = 2
  /\ lastCall.op = "timeout"
  /\ \E i \in DOMAIN sessions : \E j \in DOMAIN sessions :
       /\ sessions[i].sessionId = lastCall.arg
       /\ sessions[i].status = "disconnected"
       /\ sessions[j].sessionId # lastCall.arg
       /\ sessions[j].status = "connecting"

\* C14: a session leaves the list only in a deleteSession step for its own id.
C14_OnlyDeleteRemoves ==
  [][\A i \in DOMAIN sessions :
       sessions[i].sessionId \notin Ids(sessions')
         => lastCall' = Call("deleteSession", sessions[i].sessionId)]_vars

\* A timed-out session is still listed after another session was deleted.
C14_Witness ==
  /\ Len(created) = 2
  /\ Len(sessions) = 1
  /\ sessions[1].status = "disconnected"
  /\ lastCall.op = "deleteSession"
  /\ lastCall.arg # sessions[1].sessionId

\* C15: at most one creation is suspended at a time, the busy flag is true
\* exactly while one is, and a creation starts only when none is suspended.
C15_OneCreationInFlight ==
  /\ [](Cardinality(Suspended) <= 1 /\ (isGenerating <=> Suspended # {}))
  /\ [][(lastCall'.op \in {"createQRSession", "createPairSession"}
           /\ timers' # timers)
          => (Suspended = {} /\ ~isGenerating /\ isGenerating')]_vars

\* A creation is suspended while a session of an earlier creation is listed.
C15_Witness ==
  /\ isGenerating
  /\ Cardinality(Suspended) = 1
  /\ Len(sessions) = 1

\* C17: every listed session has at most one pending timer, due 30000 ms after
\* its createdAt for a scan session and 60000 ms after for a pairing session;
\* a creation schedules exactly one timeout timer, for its new id; no other
\* step schedules or changes one; a timer that fired is gone.
TimeoutTimers(ts) == {ts[i] : i \in {j \in DOMAIN ts : ts[j].kind = "timeout"}}

C17_Deadline(s) ==
  s.createdAt + (IF s.qrCode # undefined THEN QRTimeout ELSE PairTimeout)

C17_OneTimerPerSession ==
  /\ \A i \in DOMAIN timers : \A j \in DOMAIN timers :
       (timers[i].kind = "timeout" /\ timers[j].kind = "timeout"
          /\ timers[i].id = timers[j].id) => i = j
  /\ \A i \in DOMAIN sessions : \A t \in TimeoutTimers(timers) :
       t.id = sessions[i].sessionId => t.due = C17_Deadline(sessions[i])
  /\ \A t \in TimeoutTimers(timers) : \E k \in DOMAIN created : created[k] = t.id

C17_TimerSteps ==
  [][/\ lastCall'.op \in {"createQRSession.resume", "createPairSession.resume"}
        => /\ lastCall'.arg \notin {created[k] : k \in DOMAIN created}
           /\ TimeoutTimers(timers') =
                TimeoutTimers(timers) \cup
                  {Timer("timeout", C17_Deadline(Head(sessions')), lastCall'.arg, "")}
     /\ lastCall'.op = "timeout"
        => /\ TimeoutTimers(timers') = TimeoutTimers(timers) \ {t \in TimeoutTimers(timers) : t.id = lastCall'.arg}
           /\ TimeoutTimers(timers') # TimeoutTimers(timers)
     /\ lastCall'.op \notin {"createQRSession.resume", "createPairSession.resume", "timeout"}
        => TimeoutTimers(timers') = TimeoutTimers(timers)]_vars

\* C17: exactly one deadline governs each session, set at creation, 30 s or
\* 60 s after it, never moved, and its timer fires at most once.
C17_OneDeadline == []C17_OneTimerPerSession /\ C17_TimerSteps

\* A scan session and a pairing session are listed, a confirm was the last
\* step and both timers are pending.
C17_Witness ==
  /\ Len(sessions) = 2
  /\ \E i \in DOMAIN sessions : sessions[i].qrCode # undefined
  /\ \E i \in DOMAIN sessions : sessions[i].pairCode # undefined
  /\ lastCall.op = "simulateConnection"
  /\ Cardinality(TimeoutTimers(timers)) = 2

\* C16: every value generatePairCode returns has exactly 9 characters, the
\* fifth a hyphen and each other one of the 36 characters A-Z0-9.
C16_Alphabet ==
  {"A", "B", "C", "D", "E", "F", "G", "H", "I", "J", "K", "L", "M", "N", "O", "P",
   "Q", "R", "S", "T", "U", "V", "W", "X", "Y", "Z",
   "0", "1", "2", "3", "4", "5", "6", "7", "8", "9"}

C16_PairCodeShape ==
  /\ {chars[i] : i \in DOMAIN chars} = C16_Alphabet
  /\ pairCodeOut # << >> =>
       /\ Len(pairCodeOut) = 9
       /\ pairCodeOut[5] = "-"
       /\ \A i \in {1, 2, 3, 4, 6, 7, 8, 9} : pairCodeOut[i] \in C16_Alphabet
       /\ SubSeq(pairCodeOut, 1, 4) = SubSeq(result, 1, 4)
       /\ SubSeq(pairCodeOut, 6, 9) = SubSeq(result, 5, 8)

\* A call has returned a code that starts with Z and ends with 9.
C16_Witness ==
  /\ Len(pairCodeOut) = 9
  /\ pairCodeOut[1] = "Z"
  /\ pairCodeOut[4] = "0"
  /\ pairCodeOut[9] = "9"

\* C20: a creation that has started always completes, and the busy flag never
\* stays true.
C20_Resumes ==
  /\ (Suspended # {}) ~> (Suspended = {})
  /\ isGenerating ~> ~isGenerating

\* C20: a started creation sets the busy flag; when it resumes it inserts its
\* session, connecting, at the front and resets the flag; a pairing request
\* with an empty number leaves the flag false.
C20_Steps ==
  [][/\ (lastCall'.op \in {"createQRSession", "createPairSession"} /\ timers' # timers)
        => (isGenerating' /\ Cardinality(Suspended') = Cardinality(Suspended) + 1)
     /\ lastCall'.op \in {"createQRSession.resume", "createPairSession.resume"}
        => /\ Cardinality(Suspended') = Cardinality(Suspended) - 1
           /\ Len(sessions') = Len(sessions) + 1
           /\ Tail(sessions') = sessions
           /\ Head(sessions').sessionId = lastCall'.arg
           /\ Head(sessions').status = "connecting"
           /\ ~isGenerating'
     /\ (lastCall'.op = "createPairSession" /\ phoneNumber = "")
        => (~isGenerating /\ ~isGenerating' /\ Suspended' = Suspended)]_vars

\* C20: every creation that starts eventually completes, inserting its session
\* in state connecting and resetting isGenerating; a pairing request that fails
\* validation never sets the flag.
C20_CreationCompletes == C20_Resumes /\ C20_Steps

\* A pairing creation has just resumed: its session is listed, connecting, and
\* the flag is false again.
C20_Witness ==
  /\ lastCall.op = "createPairSession.resume"
  /\ ~isGenerating
  /\ Suspended = {}
  /\ Len(sessions) = 1
  /\ sessions[1].sessionId = lastCall.arg
  /\ sessions[1].status = "connecting"

\* C13: simulateConnection leaves every Disconnected session as it is.
C13_ConfirmTerminalNoOp ==
  [][lastCall'.op = "simulateConnection" =>
       \A i \in DOMAIN sessions :
         sessions[i].status = "disconnected"
           => (i \in DOMAIN sessions' /\ sessions'[i] = sessions[i])]_vars

\* C18: simulateConnection makes the connecting session with its id connected
\* and changes nothing else; on a connected session it changes nothing; and a
\* second simulateConnection with the same id would change nothing.
C18_ConfirmIdempotent ==
  [][lastCall'.op = "simulateConnection" =>
       /\ Len(sessions') = Len(sessions)
       /\ \A i \in DOMAIN sessions :
            /\ (sessions[i].sessionId = lastCall'.arg /\ sessions[i].status = "connecting")
                 => sessions'[i] = [sessions[i] EXCEPT !.status = "connected"]
            /\ sessions[i].status = "connected" => sessions'[i] = sessions[i]
            /\ sessions[i].sessionId # lastCall'.arg => sessions'[i] = sessions[i]
       /\ (\A i \in DOMAIN sessions :
             sessions[i].sessionId = lastCall'.arg => sessions[i].status = "connected")
            => sessions' = sessions
       /\ connect(sessions', lastCall'.arg) = sessions']_vars

\* simulateConnection ran last, for a listed session that is connected, while
\* a connecting session is listed too: the state after one call of it and,
\* the second call changing nothing, after two.
C18_Witness ==
  /\ lastCall.op = "simulateConnection"
  /\ Has(lastCall.arg, "connected")
  /\ \E i \in DOMAIN sessions :
       sessions[i].sessionId # lastCall.arg /\ sessions[i].status = "connecting"

\* C19: a creation that resumes, whatever else is suspended or has happened,
\* puts exactly its own new record at the front of the list and leaves every
\* record already in the list, and every other suspended creation, as it was.
C19_ConcurrentCreations ==
  [][lastCall'.op \in {"createQRSession.resume", "createPairSession.resume"} =>
       /\ Len(sessions') = Len(sessions) + 1
       /\ Tail(sessions') = sessions
       /\ Head(sessions').sessionId = lastCall'.arg
       /\ Head(sessions').status = "connecting"
       /\ Head(sessions').createdAt = now
       /\ created' = Append(created, lastCall'.arg)
       /\ Cardinality(Suspended') = Cardinality(Suspended) - 1]_vars

\* Two creations were suspended at once and both have resumed, in the same
\* millisecond: both records are listed.
C19_Witness ==
  /\ Len(sessions) = 2
  /\ Len(created) = 2
  /\ sessions[1].createdAt = sessions[2].createdAt
  /\ lastCall.op \in {"createQRSession.resume", "createPairSession.resume"}
  /\ lastCall.arg = sessions[1].sessionId

====
